---- MODULE Spec2Model ----
(***************************************************************************)
(* A model of utils/check_links.py: the markdown link extractor, the link  *)
(* validator check_url (both the requests path and the urllib path) and    *)
(* the orchestration in main.  Text is modelled by TLA+ strings, which TLC *)
(* treats as sequences of characters (Len, SubSeq and \o apply to them).   *)
(***************************************************************************)
EXTENDS Integers, Sequences, FiniteSets, TLC

(***************************************************************************)
(* String primitives of Python used by the program.                        *)
(***************************************************************************)
\* the slice s[a-1:b] of Python: indices past the end are clipped
Slice(s, a, b) == SubSeq(s, a, IF b < Len(s) THEN b ELSE Len(s))

Char(s, i) == Slice(s, i, i)

Take(s, n) == SubSeq(s, 1, IF n < Len(s) THEN n ELSE Len(s))

Drop(s, n) == SubSeq(s, n + 1, Len(s))

\* sub in s
Contains(s, sub) ==
  \E i \in 1..(Len(s) - Len(sub) + 1) : SubSeq(s, i, i + Len(sub) - 1) = sub

\* s.startswith(p)
StartsWith(s, p) == Len(p) <= Len(s) /\ SubSeq(s, 1, Len(p)) = p

\* s.endswith(p)
EndsWith(s, p) == Len(p) <= Len(s) /\ SubSeq(s, Len(s) - Len(p) + 1, Len(s)) = p

\* s.find(sub, from): the least index >= from where sub occurs in s, 0 if none
RECURSIVE Find(_, _, _)
Find(s, sub, from) ==
  IF from + Len(sub) - 1 > Len(s) THEN 0
  ELSE IF SubSeq(s, from, from + Len(sub) - 1) = sub THEN from
  ELSE Find(s, sub, from + 1)

UpperLetters == "ABCDEFGHIJKLMNOPQRSTUVWXYZ"

LowerLetters == "abcdefghijklmnopqrstuvwxyz"

LowerChar(c) ==
  LET i == Find(UpperLetters, c, 1) IN IF i = 0 THEN c ELSE Char(LowerLetters, i)

\* s.lower()
RECURSIVE Lower(_)
Lower(s) == IF s = "" THEN "" ELSE LowerChar(Char(s, 1)) \o Lower(Drop(s, 1))

IsSpace(c) == c \in {" ", "\t", "\n", "\r"}

RECURSIVE LStrip(_)
LStrip(s) == IF s # "" /\ IsSpace(Char(s, 1)) THEN LStrip(Drop(s, 1)) ELSE s

RECURSIVE RStrip(_)
RStrip(s) ==
  IF s # "" /\ IsSpace(Char(s, Len(s))) THEN RStrip(Take(s, Len(s) - 1)) ELSE s

\* s.strip()
Strip(s) == LStrip(RStrip(s))

(***************************************************************************)
(* is_downloadable_file                                                    *)
(***************************************************************************)
file_type_indicators ==
  { "application/pdf", "application/zip", "application/x-zip", "application/gzip",
    "application/x-gzip", "application/octet-stream", "image/", "video/", "audio/",
    "application/json", "text/plain" }

file_extensions ==
  { ".pdf", ".zip", ".gz", ".tar", ".rar", ".7z",
    ".jpg", ".jpeg", ".png", ".gif", ".svg", ".webp", ".ico",
    ".mp4", ".mp3", ".avi", ".mov", ".wmv",
    ".doc", ".docx", ".xls", ".xlsx", ".ppt", ".pptx",
    ".csv", ".tsv", ".json", ".xml",
    ".exe", ".dmg", ".deb", ".rpm" }

is_downloadable_file(u, ct) ==
  LET content_type_lower == Lower(ct)
      url_lower == Lower(u)
      by_extension == \E ext \in file_extensions : EndsWith(url_lower, ext)
  IN IF ct # ""
       THEN IF Contains(content_type_lower, "text/html") THEN FALSE
            ELSE IF \E ind \in file_type_indicators : Contains(content_type_lower, ind)
                   THEN TRUE
                   ELSE by_extension
       ELSE by_extension

(***************************************************************************)
(* The content inspection of check_url (the same block in all four         *)
(* branches): the first <title> of the lower-cased prefix, then the        *)
(* not-found phrases.                                                      *)
(***************************************************************************)
MAX_BODY_SIZE == 8192

chunk_size == 1024

not_found_phrases ==
  { "page not found", "not found", "404", "page does not exist",
    "couldn't find the page", "we couldn't find" }

\* re.findall(r'<title[^>]*>(.*?)</title>', content, DOTALL | IGNORECASE):
\* <<start, end>> of group 1 of the first match, <<0, 0>> when there is no match.
\* [^>]* stops at the first '>' after "<title" and .*? at the first "</title>"
\* after it; a later "<title" cannot match when the first one does not.
TitleSpan(txt) ==
  LET i == Find(txt, "<title", 1)
      j == IF i = 0 THEN 0 ELSE Find(txt, ">", i + 6)
      k == IF j = 0 THEN 0 ELSE Find(txt, "</title>", j + 1)
  IN IF k = 0 THEN <<0, 0>> ELSE <<j + 1, k - 1>>

HasTitle(txt) == TitleSpan(txt) # <<0, 0>>

\* title_matches[0]
FirstTitle(txt) == SubSeq(txt, TitleSpan(txt)[1], TitleSpan(txt)[2])

\* a mutant of TitleMessage: the title is left out of the message
TitleMessage_Generic(lowered) == "200 (but page content suggests 404)"

\* The message of a title mismatch quotes title_matches[0].strip(), which was
\* matched in the lower-cased content.
TitleMessage(lowered) ==
  "200 (but page shows '" \o Strip(FirstTitle(lowered)) \o "' in title)"

\* content_chunk.decode('utf-8', errors='ignore').lower(), then the title and
\* body checks: the new is_valid and error_message.
InspectContent(chunk) ==
  LET content_lower == Lower(chunk)
      title_text == Strip(FirstTitle(content_lower))
  IN IF HasTitle(content_lower)
       THEN IF \E phrase \in not_found_phrases : Contains(title_text, phrase)
              THEN [is_valid |-> FALSE, error_message |-> TitleMessage(content_lower)]
              ELSE [is_valid |-> TRUE, error_message |-> ""]
       ELSE IF \/ Contains(Take(content_lower, MAX_BODY_SIZE), "page not found")
               \/ Contains(Take(content_lower, MAX_BODY_SIZE), "404")
              THEN [is_valid |-> FALSE,
                    error_message |-> "200 (but page content suggests 404)"]
              ELSE [is_valid |-> TRUE, error_message |-> ""]

\* requests: chunks of chunk_size are appended until MAX_BODY_SIZE is reached
RECURSIVE iter_content(_, _)
iter_content(body, chunk) ==
  IF body = "" THEN chunk
  ELSE LET acc == chunk \o Take(body, chunk_size)
       IN IF Len(acc) >= MAX_BODY_SIZE THEN acc
          ELSE iter_content(Drop(body, chunk_size), acc)

\* urllib: get_response.read(MAX_BODY_SIZE)
read(body) == Take(body, MAX_BODY_SIZE)

(***************************************************************************)
(* extract_links_from_markdown: the two regular expressions and the scan   *)
(* of one line.                                                            *)
(***************************************************************************)
\* content.split('\n')
RECURSIVE Split(_)
Split(txt) ==
  LET i == Find(txt, "\n", 1)
  IN IF i = 0 THEN <<txt>> ELSE <<Take(txt, i - 1)>> \o Split(Drop(txt, i))

\* re.finditer(r'\[([^\]]+)\]\(([^)]+)\)', line) from position i on: the matches
\* as [first, last, target], target being group 2.  Group 1 runs to the first
\* ']' and group 2 to the first ')'; both need one character at least.
RECURSIVE markdown_links(_, _)
markdown_links(line, i) ==
  IF i > Len(line) THEN <<>>
  ELSE LET j == IF Char(line, i) = "[" THEN Find(line, "]", i + 1) ELSE 0
           open == j > i + 1 /\ Char(line, j + 1) = "("
           k == IF open THEN Find(line, ")", j + 2) ELSE 0
       IN IF k > j + 2
            THEN <<[first |-> i, last |-> k, target |-> SubSeq(line, j + 2, k - 1)]>>
                   \o markdown_links(line, k + 1)
            ELSE markdown_links(line, i + 1)

\* url = match.group(2).strip(), cut at a nested '](' (lines 47-50)
CleanTarget(target) ==
  LET u == Strip(target)
      i == Find(u, "](", 1)
  IN IF i = 0 THEN u ELSE Take(u, i - 1)

\* the targets of the markdown links of a line that pass startswith('http')
RECURSIVE HttpTargets(_)
HttpTargets(matches) ==
  IF matches = <<>> THEN <<>>
  ELSE LET u == CleanTarget(Head(matches).target)
       IN (IF StartsWith(u, "http") THEN <<u>> ELSE <<>>) \o HttpTargets(Tail(matches))

\* re.sub(markdown_link_pattern, '', line): the text outside the matches
RECURSIVE line_without_md(_, _, _)
line_without_md(line, matches, from) ==
  IF matches = <<>> THEN SubSeq(line, from, Len(line))
  ELSE SubSeq(line, from, Head(matches).first - 1)
         \o line_without_md(line, Tail(matches), Head(matches).last + 1)

\* end of the run of [^\s\)] characters that starts at i (i - 1 if it is empty)
RECURSIVE UrlEnd(_, _)
UrlEnd(txt, i) ==
  IF i > Len(txt) \/ IsSpace(Char(txt, i)) \/ Char(txt, i) = ")" THEN i - 1
  ELSE UrlEnd(txt, i + 1)

\* re.finditer(r'https?://[^\s\)]+', txt) from position i on: the matched texts
RECURSIVE raw_urls(_, _)
raw_urls(txt, i) ==
  IF i > Len(txt) THEN <<>>
  ELSE LET n == IF Slice(txt, i, i + 6) = "http://" THEN 7
                ELSE IF Slice(txt, i, i + 7) = "https://" THEN 8
                ELSE 0
           e == IF n = 0 THEN 0 ELSE UrlEnd(txt, i + n)
       IN IF n > 0 /\ e >= i + n
            THEN <<SubSeq(txt, i, e)>> \o raw_urls(txt, e + 1)
            ELSE raw_urls(txt, i + 1)

\* url.rstrip('.,;:!?)')
RECURSIVE rstrip_punctuation(_)
rstrip_punctuation(u) ==
  IF u # "" /\ Char(u, Len(u)) \in {".", ",", ";", ":", "!", "?", ")"}
    THEN rstrip_punctuation(Take(u, Len(u) - 1))
    ELSE u

RECURSIVE StripAll(_)
StripAll(urls) ==
  IF urls = <<>> THEN <<>>
  ELSE <<rstrip_punctuation(Strip(Head(urls)))>> \o StripAll(Tail(urls))

Range(f) == { f[i] : i \in DOMAIN f }

\* "if url not in seen_in_line: links.append(...); seen_in_line.add(url)" over
\* the candidates of one scan, in order
RECURSIVE Unseen(_, _)
Unseen(urls, seen_in_line) ==
  IF urls = <<>> THEN <<>>
  ELSE IF Head(urls) \in seen_in_line THEN Unseen(Tail(urls), seen_in_line)
  ELSE <<Head(urls)>> \o Unseen(Tail(urls), seen_in_line \cup {Head(urls)})

\* the urls the markdown-link scan of a line appends (lines 46-53)
MarkdownScan(line) == Unseen(HttpTargets(markdown_links(line, 1)), {})

\* a mutant of RawScan: the raw-url scan starts from an empty seen_in_line
RawScan_IgnoresSeen(line, seen_in_line) ==
  Unseen(StripAll(raw_urls(line_without_md(line, markdown_links(line, 1), 1), 1)), {})

\* the urls the raw-url scan of a line appends (lines 57-64): it runs on the
\* line without its markdown links and skips what seen_in_line holds
RawScan(line, seen_in_line) ==
  Unseen(StripAll(raw_urls(line_without_md(line, markdown_links(line, 1), 1), 1)),
         seen_in_line)

\* the tuples one iteration of the loop over the lines appends to links
LineLinks(line, n) ==
  LET md == MarkdownScan(line)
      raw == RawScan(line, Range(md))
  IN [i \in 1..Len(md) |-> <<md[i], n>>] \o [i \in 1..Len(raw) |-> <<raw[i], n>>]

RECURSIVE LinksFrom(_, _)
LinksFrom(ls, n) ==
  IF n > Len(ls) THEN <<>> ELSE LineLinks(ls[n], n) \o LinksFrom(ls, n + 1)

\* the list extract_links_from_markdown(txt) returns
extract_links_from_markdown(txt) == LinksFrom(Split(txt), 1)

(***************************************************************************)
(* State.                                                                  *)
(*  check_url: its inputs and locals, its position, the result it returns, *)
(*  and a record of what it has sent and seen (head_sent .. content_chunk). *)
(***************************************************************************)
VARIABLES
  USE_REQUESTS,   \* module flag: requests is importable
  url,            \* argument of check_url
  pc,             \* position in check_url
  status_code,    \* local status_code (-1 while unassigned)
  is_valid,       \* local is_valid
  stream,         \* body of the open get_response, not read yet
  result,         \* the returned (is_valid, status_code, error_message)
  head_sent,      \* number of HEAD requests sent
  get_sent,       \* number of GET requests sent
  statuses_seen,  \* HTTP statuses returned by the requests made so far
  probe,          \* outcome of the HEAD request
  get_failed,     \* a GET, or the read of its body, raised a network error
  inspected,      \* the title/body inspection has run
  content_chunk,  \* the body prefix that was read
  \* extract_links_from_markdown
  doc,            \* how the markdown text was written: its segments, in order
  content,        \* argument of extract_links_from_markdown
  lines,          \* content.split('\n')
  line_num,       \* number of the line the loop is at
  links,          \* the (url, line_num) tuples appended so far
  forms,          \* for each element of links, the scan that appended it
  \* main
  args_files,     \* args.files (<<>> when --files is not given)
  skip_check,     \* args.skip_check
  disk,           \* the markdown files of the current directory
  undecodable,    \* those of them whose bytes are not valid UTF-8
  file_text,      \* the text of each markdown file
  mpc,            \* position in main
  md_files,       \* the files to scan
  scanned,        \* the files scan_file was called on, in order
  logged,         \* the files scan_file reported with logger.error
  all_links,      \* the link infos of all files
  unique_links,   \* the values of the dict unique_links, in insertion order
  checked,        \* counter of the checking loop
  calls,          \* the link infos check_url was invoked for, in order
  returns,        \* what check_url returned for each call
  broken_links,   \* the broken link infos
  exit_code       \* what main returned (-1 while it runs)

cuVars == <<USE_REQUESTS, url, pc, status_code, is_valid, stream, result, head_sent,
            get_sent, statuses_seen, probe, get_failed, inspected, content_chunk>>

exVars == <<doc, content, lines, line_num, links, forms>>

mainVars == <<args_files, skip_check, disk, undecodable, file_text, mpc, md_files,
              scanned, logged, all_links,
              unique_links, checked, calls, returns, broken_links, exit_code>>

vars == <<cuVars, exVars, mainVars>>

\* check_url is not running
CuIdle ==
  /\ USE_REQUESTS = TRUE
  /\ url = ""
  /\ pc = "Idle"
  /\ status_code = -1
  /\ is_valid = FALSE
  /\ stream = ""
  /\ result = [is_valid |-> FALSE, status_code |-> -1, error_message |-> ""]
  /\ head_sent = 0
  /\ get_sent = 0
  /\ statuses_seen = {}
  /\ probe = [kind |-> "none", status |-> -1, content_type |-> ""]
  /\ get_failed = FALSE
  /\ inspected = FALSE
  /\ content_chunk = ""

\* extract_links_from_markdown is not running
ExIdle ==
  /\ doc = <<>>
  /\ content = ""
  /\ lines = <<>>
  /\ line_num = 0
  /\ links = <<>>
  /\ forms = <<>>

\* main is not running
MainIdle ==
  /\ args_files = <<>>
  /\ skip_check = FALSE
  /\ disk = {}
  /\ undecodable = {}
  /\ file_text = <<>>
  /\ mpc = "Idle"
  /\ md_files = <<>>
  /\ scanned = <<>>
  /\ logged = <<>>
  /\ all_links = <<>>
  /\ unique_links = <<>>
  /\ checked = 0
  /\ calls = <<>>
  /\ returns = <<>>
  /\ broken_links = <<>>
  /\ exit_code = -1

(***************************************************************************)
(* The markdown texts given to extract_links_from_markdown: up to MaxSegs  *)
(* segments (markdown links, bare urls, plain words, line breaks), joined  *)
(* by single spaces.                                                       *)
(***************************************************************************)
MaxSegs == 3

MdLink(label, target) == [kind |-> "md", label |-> label, target |-> target, tail |-> ""]

Bare(before, target, after) ==
  [kind |-> "bare", label |-> before, target |-> target, tail |-> after]

Plain(word) == [kind |-> "text", label |-> word, target |-> "", tail |-> ""]

LineBreak == [kind |-> "break", label |-> "\n", target |-> "", tail |-> ""]

Segments ==
  { MdLink("guide", "http://a"),
    MdLink("mail", "mailto:x@y"),
    MdLink("notes", "http-notes.md"),
    MdLink("x", "https://b/c](d"),
    MdLink("dot", "http://a."),
    Bare("", "http://a", ""),
    Bare("", "http://a", "."),
    Bare("(", "http://a", ")"),
    Bare("", "http://a.", ""),
    Bare("", "https://b/c", ","),
    Plain("./rel.md"),
    LineBreak }

Render(seg) ==
  IF seg.kind = "md" THEN "[" \o seg.label \o "](" \o seg.target \o ")"
  ELSE seg.label \o seg.target \o seg.tail

RECURSIVE RenderDoc(_)
RenderDoc(d) ==
  IF d = <<>> THEN ""
  ELSE IF Len(d) = 1 THEN Render(d[1])
  ELSE Render(d[1]) \o " " \o RenderDoc(Tail(d))

\* the number of the line segment i of d is written on
LineOf(d, i) == 1 + Cardinality({ j \in 1..(i - 1) : d[j].kind = "break" })

(***************************************************************************)
(* The servers and the network check_url talks to.                         *)
(***************************************************************************)
Urls == { "https://a.io/docs", "https://a.io/paper.PDF" }

Statuses == { 200, 204, 304, 404, 405, 410, 503 }

Reason(st) ==
  CASE st = 200 -> "OK"
    [] st = 204 -> "No Content"
    [] st = 304 -> "Not Modified"
    [] st = 404 -> "Not Found"
    [] st = 405 -> "Method Not Allowed"
    [] st = 410 -> "Gone"
    [] st = 503 -> "Service Unavailable"

ContentTypes == { "", "text/html; charset=utf-8", "Application/PDF" }

Bodies ==
  { "",
    "<html><head><title>Welcome</title></head>",
    "<title>Page Not Found</title>",
    "<TITLE lang=en>\n Error 404 </TITLE>",
    "<title>Docs</title><p><title>Not Found</title>",
    "<p>no title here</p>",
    "<h1>Page not found</h1>",
    "<title>HTTP 404" }

\* str(e) of the exceptions a request can raise
ErrText(exc) ==
  CASE exc = "RequestException" -> "connection refused"
    [] exc = "URLError" -> "<urlopen error connection refused>"
    [] exc = "Exception" -> "timed out"

NoProbe == [kind |-> "none", status |-> -1, content_type |-> ""]

NoResult == [is_valid |-> FALSE, status_code |-> -1, error_message |-> ""]

InitCheck ==
  /\ USE_REQUESTS \in BOOLEAN
  /\ url \in Urls
  /\ pc = "Start"
  /\ status_code = -1
  /\ is_valid = FALSE
  /\ stream = ""
  /\ result = NoResult
  /\ head_sent = 0
  /\ get_sent = 0
  /\ statuses_seen = {}
  /\ probe = NoProbe
  /\ get_failed = FALSE
  /\ inspected = FALSE
  /\ content_chunk = ""
  /\ ExIdle
  /\ MainIdle

(***************************************************************************)
(* check_url                                                               *)
(***************************************************************************)
\* return (v, s, m)
Return(v, s, m) ==
  /\ pc' = "Done"
  /\ result' = [is_valid |-> v, status_code |-> s, error_message |-> m]

\* a mutant of ResponseBranch: a downloadable file is treated like a page
ResponseBranch_NoTrust(u, st, ct) ==
  IF st < 400 /\ st = 200 THEN "inspect" ELSE "status"

\* What follows a response with status st and declared type ct: "return" (a
\* downloadable file: the response is trusted), "inspect" (a 200 page: its
\* body is read and inspected) or "status" (the status alone decides).
ResponseBranch(u, st, ct) ==
  IF is_downloadable_file(u, ct) THEN "return"
  ELSE IF st < 400 /\ st = 200 THEN "inspect"
  ELSE "status"

\* f"{status_code} {response.reason}"
StatusReason(st) == ToString(st) \o " " \o Reason(st)

\* The end of an inspection of the prefix c: return at line 340.
Inspected(c) ==
  /\ content_chunk' = c
  /\ inspected' = TRUE
  /\ is_valid' = InspectContent(c).is_valid
  /\ Return(InspectContent(c).is_valid, status_code, InspectContent(c).error_message)

\* requests.head and the branch taken on its response
ReqHead ==
  /\ pc = "Start"
  /\ USE_REQUESTS
  /\ UNCHANGED <<exVars, mainVars>>
  /\ head_sent' = head_sent + 1
  /\ UNCHANGED <<USE_REQUESTS, url, stream, get_sent, get_failed, inspected, content_chunk>>
  /\ \/ \E st \in Statuses, ct \in ContentTypes :
          /\ status_code' = st
          /\ is_valid' = (st < 400)
          /\ statuses_seen' = statuses_seen \cup {st}
          /\ probe' = [kind |-> "response", status |-> st, content_type |-> ct]
          /\ IF ResponseBranch(url, st, ct) = "inspect"
               THEN pc' = "HeadGet" /\ UNCHANGED result
               ELSE Return(st < 400, st, IF st < 400 THEN "" ELSE StatusReason(st))
     \/ \* requests.exceptions.RequestException: handled at line 189
        /\ probe' = [NoProbe EXCEPT !.kind = "raised"]
        /\ pc' = "FallbackGet"
        /\ UNCHANGED <<status_code, is_valid, statuses_seen, result>>
     \/ \* any other exception: handled at line 341
        /\ probe' = [NoProbe EXCEPT !.kind = "raised"]
        /\ Return(FALSE, 0, ErrText("Exception"))
        /\ UNCHANGED <<status_code, is_valid, statuses_seen>>

\* requests.get(stream=True) after a 200 answer to HEAD (line 145); the status of
\* this response is not looked at
ReqHeadGet ==
  /\ pc = "HeadGet"
  /\ USE_REQUESTS
  /\ UNCHANGED <<exVars, mainVars>>
  /\ get_sent' = get_sent + 1
  /\ UNCHANGED <<USE_REQUESTS, url, status_code, is_valid, head_sent, probe, inspected,
                 content_chunk>>
  /\ \/ \E st \in Statuses :
          /\ statuses_seen' = statuses_seen \cup {st}
          /\ stream' \in Bodies
          /\ pc' = "HeadRead"
          /\ UNCHANGED <<result, get_failed>>
     \/ \* RequestException inside the try of line 123: handled at line 189
        /\ get_failed' = TRUE
        /\ pc' = "FallbackGet"
        /\ UNCHANGED <<statuses_seen, stream, result>>
     \/ /\ get_failed' = TRUE
        /\ Return(FALSE, 0, ErrText("Exception"))
        /\ UNCHANGED <<statuses_seen, stream>>

\* iter_content and the inspection, lines 153-185
ReqHeadRead ==
  /\ pc = "HeadRead"
  /\ USE_REQUESTS
  /\ UNCHANGED <<exVars, mainVars>>
  /\ UNCHANGED <<USE_REQUESTS, url, status_code, stream, head_sent, get_sent,
                 statuses_seen, probe>>
  /\ \/ /\ Inspected(iter_content(stream, ""))
        /\ UNCHANGED get_failed
     \/ \* the connection breaks while the body is read: RequestException, line 189
        /\ get_failed' = TRUE
        /\ pc' = "FallbackGet"
        /\ UNCHANGED <<is_valid, result, inspected, content_chunk>>

\* requests.get in the handler of line 189, and the branch taken on its response
ReqFallbackGet ==
  /\ pc = "FallbackGet"
  /\ USE_REQUESTS
  /\ UNCHANGED <<exVars, mainVars>>
  /\ get_sent' = get_sent + 1
  /\ UNCHANGED <<USE_REQUESTS, url, head_sent, probe, inspected, content_chunk>>
  /\ \/ \E st \in Statuses, ct \in ContentTypes :
          /\ status_code' = st
          /\ is_valid' = (st < 400)
          /\ statuses_seen' = statuses_seen \cup {st}
          /\ UNCHANGED get_failed
          /\ IF ResponseBranch(url, st, ct) = "inspect"
               THEN pc' = "FallbackRead" /\ stream' \in Bodies /\ UNCHANGED result
               ELSE /\ Return(st < 400, st, IF st < 400 THEN "" ELSE StatusReason(st))
                    /\ UNCHANGED stream
     \/ \* except Exception as inner_e, line 242
        /\ get_failed' = TRUE
        /\ Return(FALSE, 0, ErrText("RequestException"))
        /\ UNCHANGED <<status_code, is_valid, statuses_seen, stream>>

\* iter_content and the inspection in the handler, lines 211-239
ReqFallbackRead ==
  /\ pc = "FallbackRead"
  /\ USE_REQUESTS
  /\ UNCHANGED <<exVars, mainVars>>
  /\ UNCHANGED <<USE_REQUESTS, url, status_code, stream, head_sent, get_sent,
                 statuses_seen, probe>>
  /\ \/ /\ Inspected(iter_content(stream, ""))
        /\ UNCHANGED get_failed
     \/ /\ get_failed' = TRUE
        /\ Return(FALSE, 0, ErrText("RequestException"))
        /\ UNCHANGED <<is_valid, inspected, content_chunk>>

\* urlopen returns the responses with a 2xx status (redirects are followed);
\* every other status is raised as urllib.error.HTTPError
Returned(st) == 200 <= st /\ st < 300

\* except urllib.error.HTTPError as e: status_code = e.code, lines 290-293 and 335-338
HTTPErrorHandler(code) ==
  /\ status_code' = code
  /\ is_valid' = (code < 400)
  /\ Return(code < 400, code, StatusReason(code))

\* urlopen of the HEAD request and the branch taken on its response
UrlHead ==
  /\ pc = "Start"
  /\ ~USE_REQUESTS
  /\ UNCHANGED <<exVars, mainVars>>
  /\ head_sent' = head_sent + 1
  /\ UNCHANGED <<USE_REQUESTS, url, stream, get_sent, get_failed, inspected, content_chunk>>
  /\ \/ \E st \in Statuses, ct \in ContentTypes :
          /\ Returned(st)
          /\ status_code' = st
          /\ is_valid' = (st < 400)
          /\ statuses_seen' = statuses_seen \cup {st}
          /\ probe' = [kind |-> "response", status |-> st, content_type |-> ct]
          /\ IF ResponseBranch(url, st, ct) = "inspect"
               THEN pc' = "HeadGet" /\ UNCHANGED result
               ELSE Return(st < 400, st, IF st < 400 THEN "" ELSE ToString(st))
     \/ \E code \in Statuses :
          /\ ~Returned(code)
          /\ statuses_seen' = statuses_seen \cup {code}
          /\ probe' = [kind |-> "http_error", status |-> code, content_type |-> ""]
          /\ HTTPErrorHandler(code)
     \/ \* urllib.error.URLError or ValueError: handled at line 294
        /\ probe' = [NoProbe EXCEPT !.kind = "raised"]
        /\ pc' = "FallbackGet"
        /\ UNCHANGED <<status_code, is_valid, statuses_seen, result>>
     \/ \* any other exception (a socket timeout while the answer is awaited): line 341
        /\ probe' = [NoProbe EXCEPT !.kind = "raised"]
        /\ Return(FALSE, 0, ErrText("Exception"))
        /\ UNCHANGED <<status_code, is_valid, statuses_seen>>

\* urlopen of the GET request after a 200 answer to HEAD, line 264
UrlHeadGet ==
  /\ pc = "HeadGet"
  /\ ~USE_REQUESTS
  /\ UNCHANGED <<exVars, mainVars>>
  /\ get_sent' = get_sent + 1
  /\ UNCHANGED <<USE_REQUESTS, url, head_sent, probe, inspected, content_chunk>>
  /\ \/ \E st \in Statuses :
          /\ Returned(st)
          /\ statuses_seen' = statuses_seen \cup {st}
          /\ stream' \in Bodies
          /\ pc' = "HeadRead"
          /\ UNCHANGED <<status_code, is_valid, result, get_failed>>
     \/ \E code \in Statuses :
          /\ ~Returned(code)
          /\ statuses_seen' = statuses_seen \cup {code}
          /\ HTTPErrorHandler(code)
          /\ UNCHANGED <<stream, get_failed>>
     \/ \* URLError inside the try of line 247: handled at line 294
        /\ get_failed' = TRUE
        /\ pc' = "FallbackGet"
        /\ UNCHANGED <<status_code, is_valid, statuses_seen, stream, result>>
     \/ /\ get_failed' = TRUE
        /\ Return(FALSE, 0, ErrText("Exception"))
        /\ UNCHANGED <<status_code, is_valid, statuses_seen, stream>>

\* get_response.read(MAX_BODY_SIZE) and the inspection, lines 265-287
UrlHeadRead ==
  /\ pc = "HeadRead"
  /\ ~USE_REQUESTS
  /\ UNCHANGED <<exVars, mainVars>>
  /\ UNCHANGED <<USE_REQUESTS, url, status_code, stream, head_sent, get_sent,
                 statuses_seen, probe>>
  /\ \/ /\ Inspected(read(stream))
        /\ UNCHANGED get_failed
     \/ \* the read times out or is cut short: no URLError, so line 341
        /\ get_failed' = TRUE
        /\ Return(FALSE, 0, ErrText("Exception"))
        /\ UNCHANGED <<is_valid, inspected, content_chunk>>

\* urlopen of the GET request in the handler of line 294
UrlFallbackGet ==
  /\ pc = "FallbackGet"
  /\ ~USE_REQUESTS
  /\ UNCHANGED <<exVars, mainVars>>
  /\ get_sent' = get_sent + 1
  /\ UNCHANGED <<USE_REQUESTS, url, head_sent, probe, inspected, content_chunk>>
  /\ \/ \E st \in Statuses, ct \in ContentTypes :
          /\ Returned(st)
          /\ status_code' = st
          /\ is_valid' = (st < 400)
          /\ statuses_seen' = statuses_seen \cup {st}
          /\ UNCHANGED get_failed
          /\ IF ResponseBranch(url, st, ct) = "inspect"
               THEN pc' = "FallbackRead" /\ stream' \in Bodies /\ UNCHANGED result
               ELSE /\ Return(st < 400, st, IF st < 400 THEN "" ELSE ToString(st))
                    /\ UNCHANGED stream
     \/ \E code \in Statuses :
          /\ ~Returned(code)
          /\ statuses_seen' = statuses_seen \cup {code}
          /\ HTTPErrorHandler(code)
          /\ UNCHANGED <<stream, get_failed>>
     \/ \* URLError or any other exception leaves the handler: line 341
        /\ get_failed' = TRUE
        /\ Return(FALSE, 0, ErrText("URLError"))
        /\ UNCHANGED <<status_code, is_valid, statuses_seen, stream>>

\* response.read(MAX_BODY_SIZE) and the inspection in the handler, lines 310-332
UrlFallbackRead ==
  /\ pc = "FallbackRead"
  /\ ~USE_REQUESTS
  /\ UNCHANGED <<exVars, mainVars>>
  /\ UNCHANGED <<USE_REQUESTS, url, status_code, stream, head_sent, get_sent,
                 statuses_seen, probe>>
  /\ \/ /\ Inspected(read(stream))
        /\ UNCHANGED get_failed
     \/ /\ get_failed' = TRUE
        /\ Return(FALSE, 0, ErrText("Exception"))
        /\ UNCHANGED <<is_valid, inspected, content_chunk>>

check_url ==
  \/ ReqHead \/ ReqHeadGet \/ ReqHeadRead \/ ReqFallbackGet \/ ReqFallbackRead
  \/ UrlHead \/ UrlHeadGet \/ UrlHeadRead \/ UrlFallbackGet \/ UrlFallbackRead

NextCheck == check_url

SpecCheck == InitCheck /\ [][NextCheck]_vars

(***************************************************************************)
(* Properties of check_url.                                                *)
(***************************************************************************)
Done == pc = "Done"

\* C1: if any request made by check_url (the HEAD probe or a GET) returned a
\* status >= 400, the result is invalid, its message contains that status code
\* and no title/body inspection decided the verdict.
C1_ErrorStatusIsInvalid ==
  Done =>
    \A st \in statuses_seen :
      st >= 400 =>
        /\ ~result.is_valid
        /\ Contains(result.error_message, ToString(st))
        /\ ~inspected

\* The probe failed to execute: a network error, or the server rejected the
\* method (405 Method Not Allowed).
ProbeFailed == probe.kind = "raised" \/ probe.status = 405

\* C2: whenever the header-only probe fails to execute (network error, or the
\* method is rejected with 405), check_url retries with a GET request before
\* it concludes.
C2_FailedProbeIsRetried == (Done /\ ProbeFailed) => get_sent >= 1

\* C3: at most one probe and at most one body fetch are sent per URL; once a
\* body fetch failed to execute the result is invalid with status code 0.
C3_SingleFallback ==
  /\ head_sent <= 1
  /\ get_sent <= 1
  /\ (Done /\ get_failed) => (~result.is_valid /\ result.status_code = 0)

\* The case of C4: a non-downloadable URL whose probe returned 200 and whose
\* size-capped body prefix was read.
C4_Case ==
  /\ Done
  /\ probe.kind = "response"
  /\ probe.status = 200
  /\ ~is_downloadable_file(url, probe.content_type)
  /\ inspected

\* every <title> tag of a lower-cased text, as the spans of their texts
RECURSIVE TitleSpansFrom(_, _)
TitleSpansFrom(c, from) ==
  LET i == Find(c, "<title", from)
      j == IF i = 0 THEN 0 ELSE Find(c, ">", i + 6)
      k == IF j = 0 THEN 0 ELSE Find(c, "</title>", j + 1)
  IN IF k = 0 THEN {} ELSE {<<j + 1, k - 1>>} \cup TitleSpansFrom(c, k + 8)

IsNotFoundTitle(t) == \E phrase \in not_found_phrases : Contains(Lower(t), phrase)

\* C4 as claimed: if the body prefix contains a <title> tag whose text contains
\* one of the not-found phrases, the result is invalid with status code 200 and
\* a message that quotes the page's title text.
C4_QuotesPageTitle ==
  C4_Case =>
    \A sp \in TitleSpansFrom(Lower(content_chunk), 1) :
      LET page_title == Strip(SubSeq(content_chunk, sp[1], sp[2]))
      IN IsNotFoundTitle(page_title) =>
           /\ ~result.is_valid
           /\ result.status_code = 200
           /\ Contains(result.error_message, page_title)

\* C4 as amended: if the FIRST <title> tag of the body prefix has a text that,
\* lower-cased, contains one of the not-found phrases, the result is invalid
\* with status code 200 and a message that quotes the lower-cased, trimmed text
\* of that title.
C4_QuotesLoweredFirstTitle ==
  (C4_Case /\ TitleSpansFrom(Lower(content_chunk), 1) # {}) =>
    LET sp == CHOOSE x \in TitleSpansFrom(Lower(content_chunk), 1) :
                \A y \in TitleSpansFrom(Lower(content_chunk), 1) : x[1] <= y[1]
        page_title == Strip(SubSeq(content_chunk, sp[1], sp[2]))
    IN IsNotFoundTitle(page_title) =>
         /\ ~result.is_valid
         /\ result.status_code = 200
         /\ result.error_message =
              "200 (but page shows '" \o Lower(page_title) \o "' in title)"

\* witness of C4: a 200 page titled "Page Not Found" was inspected and reported
C4_Witness ==
  /\ C4_Case
  /\ content_chunk = "<title>Page Not Found</title>"
  /\ result = [is_valid |-> FALSE, status_code |-> 200,
               error_message |-> "200 (but page shows 'page not found' in title)"]

\* C5: when the probe succeeds and the target is a downloadable file, the probe
\* is trusted: the call has returned valid iff status < 400, with no GET request
\* sent and no body read.
C5_DownloadableTrustsProbe ==
  (probe.kind = "response" /\ is_downloadable_file(url, probe.content_type)) =>
    /\ Done
    /\ result.is_valid = (probe.status < 400)
    /\ result.status_code = probe.status
    /\ get_sent = 0
    /\ ~inspected
    /\ content_chunk = ""

\* witness of C5: a 200 answer declaring a PDF is valid with only the probe sent
C5_Witness ==
  /\ Done
  /\ probe = [kind |-> "response", status |-> 200, content_type |-> "Application/PDF"]
  /\ result = [is_valid |-> TRUE, status_code |-> 200, error_message |-> ""]
  /\ head_sent = 1
  /\ get_sent = 0

\* C10: every result has the ValidationResult shape: a valid result has the
\* empty message, and status code 0 only goes with an invalid result of a
\* request that failed entirely.
C10_ResultShape ==
  Done =>
    /\ result.is_valid => result.error_message = ""
    /\ result.status_code = 0 => (~result.is_valid /\ (probe.kind = "raised" \/ get_failed))

\* The probe was answered 200 for a target that is not a downloadable file.
ProbeOk200 ==
  /\ probe.kind = "response"
  /\ probe.status = 200
  /\ ~is_downloadable_file(url, probe.content_type)

\* The probe was answered with a status other than 200.
ProbeOkOtherStatus ==
  /\ probe.kind \in {"response", "http_error"}
  /\ probe.status # 200

\* A probe answered with a status other than 200 ends the check at once: no
\* body fetch, and the verdict is valid iff the status is below 400.
OtherStatusGoesToDone ==
  ProbeOkOtherStatus =>
    /\ Done
    /\ get_sent = 0
    /\ ~inspected
    /\ result.is_valid = (probe.status < 400)
    /\ result.status_code = probe.status

\* A body fetch is sent right after a failed probe or right after a 200 answer
\* for a non-downloadable target, and not once a body fetch has failed.
BodyFetchFromAllowedState ==
  get_sent' > get_sent => (~get_failed /\ (ProbeFailed \/ ProbeOk200))

\* C12: a body-fetching request is sent only from the states the per-URL
\* state machine allows, that is from ProbeFailed or from ProbeOk&HtmlStatus200
\* and not from BodyFetchFailed; a probe answered with any status other than
\* 200 goes straight to Done with no body fetch and a verdict of valid iff
\* status < 400.
C12_BodyFetchOnlyFromAllowedStates ==
  /\ [][BodyFetchFromAllowedState]_vars
  /\ []OtherStatusGoesToDone

(***************************************************************************)
(* extract_links_from_markdown as a loop over the lines.                   *)
(***************************************************************************)
InitExtract ==
  /\ doc \in UNION { [1..n -> Segments] : n \in 0..MaxSegs }
  /\ content = RenderDoc(doc)
  /\ lines = Split(content)
  /\ line_num = 1
  /\ links = <<>>
  /\ forms = <<>>
  /\ CuIdle
  /\ MainIdle

\* one iteration of "for line_num, line in enumerate(lines, start=1)"
ScanLine ==
  /\ line_num >= 1
  /\ line_num <= Len(lines)
  /\ LET line == lines[line_num]
         md == MarkdownScan(line)
         raw == RawScan(line, Range(md))
     IN /\ links' = links \o LineLinks(line, line_num)
        /\ forms' = forms \o [i \in 1..Len(md) |-> "md"] \o [i \in 1..Len(raw) |-> "raw"]
  /\ line_num' = line_num + 1
  /\ UNCHANGED <<doc, content, lines>>
  /\ UNCHANGED <<cuVars, mainVars>>

\* the loop is over: links is returned
ExDone == line_num > Len(lines)

NextExtract == ScanLine

SpecExtract == InitExtract /\ [][NextExtract]_vars

(***************************************************************************)
(* Properties of extract_links_from_markdown.                              *)
(***************************************************************************)
\* C8: the same URL is never output twice for the same line; a line with a
\* markdown link [text](U) and the same U written bare yields exactly one
\* occurrence (U, line), appended by the markdown-link scan.
C8_OncePerLine ==
  /\ \A i, j \in DOMAIN links : i # j => links[i] # links[j]
  /\ \A a, b \in DOMAIN doc :
       ( /\ doc[a].kind = "md"
         /\ doc[b].kind = "bare"
         /\ doc[a].target = doc[b].target
         /\ LineOf(doc, a) = LineOf(doc, b)
         /\ LineOf(doc, a) < line_num )
       => LET occ == { i \in DOMAIN links : links[i] = <<doc[a].target, LineOf(doc, a)>> }
          IN /\ Cardinality(occ) = 1
             /\ \A i \in occ : forms[i] = "md"

\* witness of C8: "[guide](http://a) http://a." was scanned and gave one link
C8_Witness ==
  /\ ExDone
  /\ content = "[guide](http://a) http://a."
  /\ links = << <<"http://a", 1>> >>

\* C9: a text with no http:// or https:// link yields no link at all; every
\* extracted URL begins with http:// or https://.
C9_OnlyHttpScheme ==
  /\ \A i \in DOMAIN links :
       StartsWith(links[i][1], "http://") \/ StartsWith(links[i][1], "https://")
  /\ (ExDone /\ ~Contains(content, "http://") /\ ~Contains(content, "https://"))
       => links = <<>>

(***************************************************************************)
(* main: the files named or found, the scan of each, the de-duplication,   *)
(* the checking loop and the report.                                       *)
(***************************************************************************)
MaxFiles == 2

\* the names --files can give, and those of them that are markdown files
FileNames == { "a.md", "b.md", "c.txt" }

MdNames == { f \in FileNames : EndsWith(f, ".md") }

FileTexts ==
  { "[guide](http://a) http://a.\nmore at http://a",
    "see https://b/c\n\n(http://a) and https://b/c" }

\* what a call of check_url can return to main
CheckUrlReturns ==
  { [is_valid |-> TRUE, status_code |-> 200, error_message |-> ""],
    [is_valid |-> FALSE, status_code |-> 404, error_message |-> "404 Not Found"],
    [is_valid |-> FALSE, status_code |-> 0, error_message |-> "timed out"] }

InitMain ==
  /\ args_files \in UNION { [1..n -> FileNames] : n \in 0..MaxFiles }
  /\ skip_check \in BOOLEAN
  /\ disk \in SUBSET MdNames
  /\ undecodable \in SUBSET disk
  /\ file_text \in [MdNames -> FileTexts]
  /\ mpc = "FindFiles"
  /\ md_files = <<>>
  /\ scanned = <<>>
  /\ logged = <<>>
  /\ all_links = <<>>
  /\ unique_links = <<>>
  /\ checked = 0
  /\ calls = <<>>
  /\ returns = <<>>
  /\ broken_links = <<>>
  /\ exit_code = -1
  /\ CuIdle
  /\ ExIdle

\* [Path(f) for f in args.files if f.endswith('.md')]
RECURSIVE MdOnly(_)
MdOnly(files) ==
  IF files = <<>> THEN <<>>
  ELSE (IF EndsWith(Head(files), ".md") THEN <<Head(files)>> ELSE <<>>)
         \o MdOnly(Tail(files))

\* list(Path('.').glob('*.md')): the markdown files of the directory, in the
\* order the file system lists them
Glob(files) ==
  { q \in [1..Cardinality(files) -> files] : \A i, j \in DOMAIN q : i # j => q[i] # q[j] }

\* lines 403-413
FindFiles ==
  /\ mpc = "FindFiles"
  /\ UNCHANGED <<cuVars, exVars>>
  /\ IF args_files # <<>>
       THEN md_files' = MdOnly(args_files)
       ELSE md_files' \in Glob(disk)
  /\ IF md_files' = <<>>
       THEN mpc' = "Exit" /\ exit_code' = 1
       ELSE mpc' = "Scan" /\ exit_code' = exit_code
  /\ UNCHANGED <<args_files, skip_check, disk, undecodable, file_text, logged, scanned, all_links,
                 unique_links, checked, calls, returns, broken_links>>

\* open(file_path, 'r', encoding='utf-8') and f.read() succeed: the file is
\* there and its bytes decode
CanRead(file_path) == file_path \in disk /\ file_path \notin undecodable

\* scan_file: the link infos of a file, none when it cannot be read
scan_file(file_path) ==
  IF CanRead(file_path)
    THEN LET found == extract_links_from_markdown(file_text[file_path])
         IN [i \in 1..Len(found) |->
               [file |-> file_path, url |-> found[i][1], line |-> found[i][2]]]
    ELSE <<>>

\* a mutant of ScanFile: the error of a file that cannot be read is not caught
\* and ends the run
ScanFile_AbortsOnError ==
  /\ mpc = "Scan"
  /\ UNCHANGED <<cuVars, exVars>>
  /\ Len(scanned) < Len(md_files)
  /\ LET md_file == md_files[Len(scanned) + 1]
     IN IF CanRead(md_file)
          THEN /\ scanned' = Append(scanned, md_file)
               /\ all_links' = all_links \o scan_file(md_file)
               /\ UNCHANGED <<logged, mpc, exit_code>>
          ELSE /\ mpc' = "Exit"
               /\ exit_code' = 1
               /\ UNCHANGED <<scanned, all_links, logged>>
  /\ UNCHANGED <<args_files, skip_check, disk, undecodable, file_text, md_files,
                 unique_links, checked, calls, returns, broken_links>>

\* one iteration of "for md_file in md_files", lines 417-420
ScanFile ==
  /\ mpc = "Scan"
  /\ UNCHANGED <<cuVars, exVars>>
  /\ Len(scanned) < Len(md_files)
  /\ LET md_file == md_files[Len(scanned) + 1]
     IN /\ scanned' = Append(scanned, md_file)
        /\ all_links' = all_links \o scan_file(md_file)
        /\ logged' = IF CanRead(md_file) THEN logged ELSE Append(logged, md_file)
  /\ UNCHANGED <<args_files, skip_check, disk, undecodable, file_text, mpc, md_files,
                 unique_links,
                 checked, calls, returns, broken_links, exit_code>>

\* key = (link_info['file'], link_info['url'])
Key(link_info) == <<link_info.file, link_info.url>>

\* a mutant of UniqueLinks: the key is the url alone
RECURSIVE UniqueLinks_ByUrl(_, _)
UniqueLinks_ByUrl(infos, keys) ==
  IF infos = <<>> THEN <<>>
  ELSE IF Head(infos).url \in keys THEN UniqueLinks_ByUrl(Tail(infos), keys)
  ELSE <<Head(infos)>> \o UniqueLinks_ByUrl(Tail(infos), keys \cup {Head(infos).url})

\* lines 423-427: the first link info of each key, in insertion order
RECURSIVE UniqueLinks(_, _)
UniqueLinks(infos, keys) ==
  IF infos = <<>> THEN <<>>
  ELSE IF Key(Head(infos)) \in keys THEN UniqueLinks(Tail(infos), keys)
  ELSE <<Head(infos)>> \o UniqueLinks(Tail(infos), keys \cup {Key(Head(infos))})

\* lines 422-435: the de-duplication, and the listing that ends a --skip-check run
RemoveDuplicates ==
  /\ mpc = "Scan"
  /\ UNCHANGED <<cuVars, exVars>>
  /\ Len(scanned) = Len(md_files)
  /\ unique_links' = UniqueLinks(all_links, {})
  /\ IF skip_check
       THEN mpc' = "Exit" /\ exit_code' = 0
       ELSE mpc' = "Check" /\ exit_code' = exit_code
  /\ UNCHANGED <<args_files, skip_check, disk, undecodable, file_text, logged, md_files, scanned, all_links,
                 checked, calls, returns, broken_links>>

\* one iteration of "for link_info in unique_links.values()", lines 442-460
CheckLink ==
  /\ mpc = "Check"
  /\ UNCHANGED <<cuVars, exVars>>
  /\ checked < Len(unique_links)
  /\ checked' = checked + 1
  /\ LET link_info == unique_links[checked + 1]
     IN \E r \in CheckUrlReturns :
          /\ calls' = Append(calls, link_info)
          /\ returns' = Append(returns, r)
          /\ broken_links' =
               IF r.is_valid THEN broken_links
               ELSE Append(broken_links,
                           [file |-> link_info.file, url |-> link_info.url,
                            line |-> link_info.line, status_code |-> r.status_code,
                            error |-> r.error_message])
  /\ UNCHANGED <<args_files, skip_check, disk, undecodable, file_text, logged, mpc, md_files, scanned,
                 all_links, unique_links, exit_code>>

\* a mutant of ReportStatus: broken links do not fail the run
ReportStatus_AlwaysZero(broken) == 0

\* lines 464-475: return 1 if broken_links else 0
ReportStatus(broken) == IF broken # <<>> THEN 1 ELSE 0

Report ==
  /\ mpc = "Check"
  /\ UNCHANGED <<cuVars, exVars>>
  /\ checked = Len(unique_links)
  /\ exit_code' = ReportStatus(broken_links)
  /\ mpc' = "Exit"
  /\ UNCHANGED <<args_files, skip_check, disk, undecodable, file_text, logged, md_files, scanned, all_links,
                 unique_links, checked, calls, returns, broken_links>>

main == FindFiles \/ ScanFile \/ RemoveDuplicates \/ CheckLink \/ Report

NextMain == main

SpecMain == InitMain /\ [][NextMain]_vars

(***************************************************************************)
(* Properties of main.                                                     *)
(***************************************************************************)
\* index of the first link info of all_links with the key of info
FirstSeen(info) ==
  CHOOSE k \in DOMAIN all_links :
    /\ Key(all_links[k]) = Key(info)
    /\ \A m \in 1..(k - 1) : Key(all_links[m]) # Key(info)

\* check_url was invoked exactly once per distinct (file, url) pair of
\* all_links, in first-seen order, each time with the line of the first
\* occurrence; the report carries that line too
OncePerPairInFirstSeenOrder ==
  /\ \A i \in DOMAIN calls :
       /\ \E k \in DOMAIN all_links : Key(all_links[k]) = Key(calls[i])
       /\ calls[i].line = all_links[FirstSeen(calls[i])].line
  /\ \A k \in DOMAIN all_links :
       Cardinality({ i \in DOMAIN calls : Key(calls[i]) = Key(all_links[k]) }) = 1
  /\ \A i, j \in DOMAIN calls :
       i < j => FirstSeen(calls[i]) < FirstSeen(calls[j])
  /\ \A b \in DOMAIN broken_links :
       /\ \E k \in DOMAIN all_links : Key(all_links[k]) = Key(broken_links[b])
       /\ broken_links[b].line = all_links[FirstSeen(broken_links[b])].line

\* C6 as claimed: for any scanned files and extracted occurrences, main invokes
\* check_url exactly once per distinct (file, url) pair, in first-seen order,
\* and the line carried into the report is that of the first occurrence.
C6_CheckedOncePerPair == mpc = "Exit" => OncePerPairInFirstSeenOrder

\* C6 as amended: the same, for a run without --skip-check; with --skip-check
\* check_url is not invoked at all.
C6_CheckedOncePerPairUnlessSkipped ==
  mpc = "Exit" =>
    IF skip_check /\ md_files # <<>>
      THEN calls = <<>> /\ broken_links = <<>>
      ELSE OncePerPairInFirstSeenOrder

\* witness of C6: two files link the same URL, which occurs more than once in
\* one of them; each (file, url) pair was checked once
C6_Witness ==
  /\ mpc = "Exit"
  /\ ~skip_check
  /\ Len(calls) < Len(all_links)
  /\ \E i, j \in DOMAIN calls : calls[i].url = calls[j].url /\ calls[i].file # calls[j].file

\* no markdown file is found: --files names none, or the directory holds none
NoMarkdownFiles ==
  IF args_files # <<>>
    THEN \A i \in DOMAIN args_files : ~EndsWith(args_files[i], ".md")
    ELSE disk = {}

\* C7: the exit status is 1 exactly when no markdown files are found or a
\* checked link is broken, and 0 otherwise; when no markdown files are found
\* the run ends before any file is scanned or any request is made.
C7_ExitStatus ==
  /\ mpc = "Exit" =>
       exit_code = IF NoMarkdownFiles \/ \E i \in DOMAIN returns : ~returns[i].is_valid
                     THEN 1 ELSE 0
  /\ mpc \in {"FindFiles", "Scan", "Check"} => exit_code = -1
  /\ NoMarkdownFiles =>
       /\ mpc \in {"FindFiles", "Exit"}
       /\ scanned = <<>>
       /\ calls = <<>>

\* witness of C7: a run whose first link is valid and whose second is broken
\* ended with status 1
C7_Witness ==
  /\ mpc = "Exit"
  /\ exit_code = 1
  /\ Len(returns) >= 2
  /\ returns[1].is_valid
  /\ ~returns[2].is_valid

\* the link infos a readable file holds: one per extracted (url, line) pair
FileLinks(f) ==
  LET found == extract_links_from_markdown(file_text[f])
  IN [i \in 1..Len(found) |-> [file |-> f, url |-> found[i][1], line |-> found[i][2]]]

\* the link infos of the readable files of a list, file by file
RECURSIVE ReadableLinks(_)
ReadableLinks(files) ==
  IF files = <<>> THEN <<>>
  ELSE (IF CanRead(Head(files)) THEN FileLinks(Head(files)) ELSE <<>>)
         \o ReadableLinks(Tail(files))

\* the files of a list that cannot be read, in order
Unreadable(files) == SelectSeq(files, LAMBDA f : ~CanRead(f))

\* the broken-link entries that follow from the calls made and their returns
RECURSIVE BrokenOf(_, _)
BrokenOf(infos, rets) ==
  IF infos = <<>> THEN <<>>
  ELSE (IF Head(rets).is_valid THEN <<>>
        ELSE << [file |-> Head(infos).file, url |-> Head(infos).url,
                 line |-> Head(infos).line, status_code |-> Head(rets).status_code,
                 error |-> Head(rets).error_message] >>)
         \o BrokenOf(Tail(infos), Tail(rets))

====
